---- MODULE Spec2Model ----
(***************************************************************************)
(* The external-rule host of dlint (examples/dlint/js.rs): PluginRunner,   *)
(* JsRunner, the three host operations registered on the runtime, and the  *)
(* bootstrap driver (dummy.js) produced by create_dummy_source.            *)
(*                                                                         *)
(* An Option<T> is a set with at most one element: {} is None, {v} is      *)
(* Some(v).  A HashMap is a function whose domain is its key set; the      *)
(* order in which a HashMap or HashSet is iterated is not fixed by the     *)
(* program, so every iteration draws one order among all of them.          *)
(***************************************************************************)
EXTENDS Integers, Sequences, FiniteSets, TLC

\* ------------------------------------------------------------------ bounds
MaxPos == 1
MaxLen == 2
MaxSteps == 1
OpsSteps == 2
MaxInvocations == 2
\* Most nodes of a program linted by no-non-null-assertion.
MaxNodes == 5
\* Most case clauses of a switch statement linted by use-isnan.
MaxCases == 3
SeqSteps == 1
ConcSteps == 1

\* ------------------------------------------------------------------ values
Threads == {1, 2}
RuleCodes == {"a", "b"}
PLUGIN_PATH == "./dummy.js"

Positions == 0..MaxPos
Spans == {[lo |-> l, hi |-> h] : l \in Positions, h \in Positions} \ {s \in [lo : Positions, hi : Positions] : s.lo > s.hi}

\* The hint of a diagnostic as the module writes it: the key left out, the
\* key set to null, or a string.
HintAbsent == <<"absent">>
HintNull == <<"null">>
HintStr(s) == <<"str", s>>

\* The diagnostics {span, message, hint?} a module reports in this model.
JsDiagnostic1 == [span |-> [lo |-> 0, hi |-> MaxPos], message |-> "m1", hint |-> HintAbsent]
JsDiagnostic2 == [span |-> [lo |-> MaxPos, hi |-> MaxPos], message |-> "m2", hint |-> HintStr("h")]
JsDiagnostic3 == [span |-> [lo |-> 0, hi |-> 0], message |-> "m3", hint |-> HintNull]
JsDiagnostics == {JsDiagnostic1, JsDiagnostic2, JsDiagnostic3}

SeqsUpTo(S, n) == UNION {[1..k -> S] : k \in 0..n}

\* All orders in which the elements of S can be iterated.
Orders(S) == {s \in [1..Cardinality(S) -> S] : \A i, j \in 1..Cardinality(S) : i # j => s[i] # s[j]}

Some(v) == {v}
None == {}
Unwrap(o) == CHOOSE v \in o : TRUE

\* ------------------------------------------------- serde: values from JS
\* InnerDiagnostics { span, message, hint: Option<String> }: a missing or
\* null hint deserializes to None, a string to Some.
InnerDiagnostics(d) ==
  [span |-> d.span, message |-> d.message,
   hint |-> IF d.hint[1] = "str" THEN Some(d.hint[2]) ELSE None]

DiagnosticsFromJs(list) == [i \in 1..Len(list) |-> InnerDiagnostics(list[i])]

\* ------------------------------------------------------------- HashMap
HashMap_new == [c \in {} |-> <<>>]
HashMap_insert(m, k, v) == [c \in (DOMAIN m) \cup {k} |-> IF c = k THEN v ELSE m[c]]

\* ---------------------------------------------------- control-flow facts
Metadata == [unreachable : BOOLEAN, stops_execution : BOOLEAN]

\* ControlFlow::meta(lo): the facts recorded at a position, if any.
meta(control_flow, lo) ==
  IF lo \in DOMAIN control_flow THEN Some(control_flow[lo]) ELSE None

stops_execution(m) == m.stops_execution

\* The control-flow graphs a lint run is seeded with.
ControlFlows ==
  { [p \in 0..(MaxPos - 1) |-> [unreachable |-> (p % 2 = 0), stops_execution |-> (p % 2 = 1)]],
    [p \in {MaxPos} |-> [unreachable |-> FALSE, stops_execution |-> TRUE]] }

\* ------------------------------------------------------------- OpState
\* The slots of the runtime's OpState that the host uses, keyed by type.
OpState_new == [ControlFlow |-> None, Codes |-> None, Diagnostics |-> None]


\* A variant of op_add_diagnostics that extends the list already stored for
\* the code instead of replacing it.
op_add_diagnostics_merge(state, code, list) ==
  LET diagnostics == DiagnosticsFromJs(list)
      stored == IF state.Diagnostics = None THEN HashMap_new ELSE Unwrap(state.Diagnostics)
      old == IF code \in DOMAIN stored THEN stored[code] ELSE <<>>
  IN [state EXCEPT !.Diagnostics = Some(HashMap_insert(stored, code, old \o diagnostics))]

\* op_add_diagnostics: the list reported for a code replaces whatever the
\* map held for that code.
op_add_diagnostics(state, code, list) ==
  LET diagnostics == DiagnosticsFromJs(list)
      stored == IF state.Diagnostics = None THEN HashMap_new ELSE Unwrap(state.Diagnostics)
  IN [state EXCEPT !.Diagnostics = Some(HashMap_insert(stored, code, diagnostics))]

\* op_add_rule_code: the code joins the set of registered codes.
op_add_rule_code(state, code) ==
  LET stored == IF state.Codes = None THEN {} ELSE Unwrap(state.Codes)
  IN [state EXCEPT !.Codes = Some(stored \cup {code})]

\* A variant of op_query_control_flow_by_span that looks the facts up at
\* span.hi.
op_query_control_flow_by_span_hi(state, span) ==
  IF state.ControlFlow = None
  THEN [err |-> Some("ControlFlow is not set"), isReachable |-> None, stopsExecution |-> None]
  ELSE LET control_flow == Unwrap(state.ControlFlow)
           m == meta(control_flow, span.hi)
       IN [err |-> None,
           isReachable |-> {~x.unreachable : x \in m},
           stopsExecution |-> {stops_execution(x) : x \in m}]

\* op_query_control_flow_by_span: an error when no ControlFlow was put into
\* the state, else the facts at span.lo, each field null when none are
\* recorded there.
op_query_control_flow_by_span(state, span) ==
  IF state.ControlFlow = None
  THEN [err |-> Some("ControlFlow is not set"), isReachable |-> None, stopsExecution |-> None]
  ELSE LET control_flow == Unwrap(state.ControlFlow)
           m == meta(control_flow, span.lo)
       IN [err |-> None,
           isReachable |-> {~x.unreachable : x \in m},
           stopsExecution |-> {stops_execution(x) : x \in m}]

\* ------------------------------------------------------------- Context
\* Context::add_diagnostic / add_diagnostic_with_hint / set_plugin_codes.
add_diagnostic(ctx, span, code, message) ==
  [ctx EXCEPT !.diagnostics =
     Append(@, [rule_code |-> code, span |-> span, message |-> message, hint |-> None])]

add_diagnostic_with_hint(ctx, span, code, message, hint) ==
  [ctx EXCEPT !.diagnostics =
     Append(@, [rule_code |-> code, span |-> span, message |-> message, hint |-> Some(hint)])]

set_plugin_codes(ctx, codes) == [ctx EXCEPT !.plugin_codes = codes]

\* ---------------------------------------------------------------- state
VARIABLES
  cfg,        \* what this exploration runs: the threads and their budgets
  plugin,     \* the PluginRunner descriptor shared by every run
  pc,         \* per thread: the position inside PluginRunner::run
  op_state,   \* per thread: the OpState of the JsRunner that run built last
  js,         \* per thread: the JavaScript side of that runtime
  local,      \* per thread: run's locals `codes` and `diagnostic_map`
  context,    \* per thread: the Context the run was handed
  trace,      \* per thread: the calls made so far in the current invocation
  lint        \* the run of a native rule over a program (LintRule::lint_program)

vars == <<cfg, plugin, pc, op_state, js, local, context, trace, lint>>

\* No native rule is running.
Lint_none == [rule |-> "none", program |-> <<>>, todo |-> <<>>, visited |-> <<>>, base |-> 0]

JsEnv_new ==
  [rules |-> {}, runPlugins |-> FALSE, tasks |-> <<>>, evalErr |-> FALSE,
   loop |-> <<>>, cur |-> None, ruleCodes |-> None]

NoQuery == [span |-> None, ret |-> None]

Trace_new(inv, base) ==
  [inv |-> inv, steps |-> 0, base |-> base, reported |-> <<>>,
   instantiated |-> {}, lastQuery |-> NoQuery, fault |-> "none", registered |-> {}]

Local_new == [codes |-> {}, diagnostic_map |-> None]

\* The tasks module code can leave on the runtime's event loop: each one,
\* when the loop runs it, calls one host operation.
Tasks(codes, diags) ==
  [op : {"op_add_rule_code"}, code : codes, diagnostics : {<<>>}]
    \cup [op : {"op_add_diagnostics"}, code : codes, diagnostics : [1..1 -> diags]]

Report(by, code, list) == [by |-> by, code |-> code, diagnostics |-> list]

InitWith(c, cfs) ==
  /\ cfg = c
  /\ plugin = [plugin_path |-> PLUGIN_PATH]
  /\ pc = [r \in Threads |-> "idle"]
  /\ op_state = [r \in Threads |-> OpState_new]
  /\ js = [r \in Threads |-> JsEnv_new]
  /\ local = [r \in Threads |-> Local_new]
  /\ \E cf \in cfs :
       context = [r \in Threads |-> [diagnostics |-> <<>>, plugin_codes |-> {}, control_flow |-> cf]]
  /\ trace = [r \in Threads |-> Trace_new(0, 0)]
  /\ lint = Lint_none

\* One lint thread, one invocation, the module drawing on every input.
Init ==
  InitWith([threads |-> {1}, maxInv |-> 1, maxSteps |-> MaxSteps, maxLen |-> MaxLen,
            codes |-> RuleCodes, diags |-> [r \in Threads |-> JsDiagnostics], spans |-> Spans],
           ControlFlows)

ControlFlow1 == CHOOSE cf \in ControlFlows : 0 \in DOMAIN cf

\* One lint thread, one invocation, more host calls per invocation over
\* fewer distinct arguments.
InitOps ==
  InitWith([threads |-> {1}, maxInv |-> 1, maxSteps |-> OpsSteps, maxLen |-> 1,
            codes |-> RuleCodes, diags |-> [r \in Threads |-> {JsDiagnostic1, JsDiagnostic2}],
            spans |-> {[lo |-> 0, hi |-> MaxPos]}],
           {ControlFlow1})

\* One lint thread invoking the plugin several times in a row.
InitSeq ==
  InitWith([threads |-> {1}, maxInv |-> MaxInvocations, maxSteps |-> SeqSteps, maxLen |-> 1,
            codes |-> RuleCodes, diags |-> [r \in Threads |-> {JsDiagnostic2}],
            spans |-> {[lo |-> 0, hi |-> MaxPos]}],
           {ControlFlow1})

\* Two lint threads sharing the descriptor, one invocation each, each on
\* its own program: the diagnostics of one thread are not those of the other.
InitConc ==
  InitWith([threads |-> Threads, maxInv |-> 1, maxSteps |-> ConcSteps, maxLen |-> 1,
            codes |-> {"a"},
            diags |-> [r \in Threads |-> IF r = 1 THEN {JsDiagnostic1} ELSE {JsDiagnostic2}],
            spans |-> {[lo |-> 0, hi |-> MaxPos]}],
           {ControlFlow1})

\* ------------------------------------------------------- PluginRunner::run
Running(r) == r \in cfg.threads

\* A variant of JsRunner::new that keeps the runtime of the previous
\* invocation, and with it that runtime's OpState.
JsRunnerNew_reuse(r) ==
  /\ Running(r)
  /\ pc[r] = "idle"
  /\ trace[r].inv < cfg.maxInv
  /\ js' = [js EXCEPT ![r] = JsEnv_new]
  /\ local' = [local EXCEPT ![r] = Local_new]
  /\ \E loads \in BOOLEAN :
       /\ pc' = [pc EXCEPT ![r] = IF loads THEN "put" ELSE "panicked"]
       /\ trace' = [trace EXCEPT ![r] =
            [Trace_new(trace[r].inv + 1, Len(context[r].diagnostics))
               EXCEPT !.fault = IF loads THEN "none" ELSE "load_module"]]
  /\ UNCHANGED <<lint, cfg, plugin, context, op_state>>

\* JsRunner::new: a new JsRuntime (whose OpState is empty) with the three
\* operations registered, then load_module(...).unwrap(), which panics when
\* the driver or the plugin it imports cannot be loaded.
JsRunnerNew(r) ==
  /\ Running(r)
  /\ pc[r] = "idle"
  /\ trace[r].inv < cfg.maxInv
  /\ op_state' = [op_state EXCEPT ![r] = OpState_new]
  /\ js' = [js EXCEPT ![r] = JsEnv_new]
  /\ local' = [local EXCEPT ![r] = Local_new]
  /\ \E loads \in BOOLEAN :
       /\ pc' = [pc EXCEPT ![r] = IF loads THEN "put" ELSE "panicked"]
       /\ trace' = [trace EXCEPT ![r] =
            [Trace_new(trace[r].inv + 1, Len(context[r].diagnostics))
               EXCEPT !.fault = IF loads THEN "none" ELSE "load_module"]]
  /\ UNCHANGED <<lint, cfg, plugin, context>>

\* A variant of lines 167-171 that goes on to mod_evaluate without putting
\* the control flow into the OpState.
PutControlFlow_skip(r) ==
  /\ Running(r)
  /\ pc[r] = "put"
  /\ pc' = [pc EXCEPT ![r] = "mod_evaluate"]
  /\ UNCHANGED <<lint, cfg, plugin, op_state, js, local, context, trace>>

\* run, lines 167-171: a clone of the Context's control flow goes into the
\* new OpState.
PutControlFlow(r) ==
  /\ Running(r)
  /\ pc[r] = "put"
  /\ op_state' = [op_state EXCEPT ![r].ControlFlow = Some(context[r].control_flow)]
  /\ pc' = [pc EXCEPT ![r] = "mod_evaluate"]
  /\ UNCHANGED <<lint, cfg, plugin, js, local, context, trace>>

\* Module code is running: the plugin's top level (mod_evaluate) or the
\* rule's collectDiagnostics (inside runPlugins).
InJs(r) == pc[r] \in {"mod_evaluate", "collect"}

CanStep(r) == Running(r) /\ InJs(r) /\ trace[r].steps < cfg.maxSteps

\* Module code calls Deno.core.opSync('op_add_rule_code', {code}) itself.
JsCallAddRuleCode(r, code) ==
  /\ CanStep(r)
  /\ op_state' = [op_state EXCEPT ![r] = op_add_rule_code(op_state[r], code)]
  /\ trace' = [trace EXCEPT ![r].steps = @ + 1,
                            ![r].registered = IF pc[r] = "mod_evaluate" THEN @ \cup {code} ELSE @]
  /\ UNCHANGED <<lint, cfg, plugin, pc, js, local, context>>

\* A variant of the call in which the diagnostic map is one process-wide
\* map (here: the one of thread 1) instead of a slot of the caller's OpState.
JsCallAddDiagnostics_shared(r, code, list) ==
  /\ CanStep(r)
  /\ op_state' = [op_state EXCEPT ![1] = op_add_diagnostics(op_state[1], code, list)]
  /\ trace' = [trace EXCEPT ![r].steps = @ + 1,
                            ![r].reported = Append(@, Report(pc[r], code, list))]
  /\ UNCHANGED <<lint, cfg, plugin, pc, js, local, context>>

\* Module code calls Deno.core.opSync('op_add_diagnostics', ...) itself.
JsCallAddDiagnostics(r, code, list) ==
  /\ CanStep(r)
  /\ op_state' = [op_state EXCEPT ![r] = op_add_diagnostics(op_state[r], code, list)]
  /\ trace' = [trace EXCEPT ![r].steps = @ + 1,
                            ![r].reported = Append(@, Report(pc[r], code, list))]
  /\ UNCHANGED <<lint, cfg, plugin, pc, js, local, context>>

\* Module code calls Deno.core.opSync('op_query_control_flow_by_span', {span}).
JsCallQueryControlFlow(r, span) ==
  /\ CanStep(r)
  /\ trace' = [trace EXCEPT ![r].steps = @ + 1,
                            ![r].lastQuery = [span |-> Some(span),
                                              ret |-> Some(op_query_control_flow_by_span(op_state[r], span))]]
  /\ UNCHANGED <<lint, cfg, plugin, pc, op_state, js, local, context>>

\* Module code leaves work on the runtime's event loop.
JsSchedule(r, task) ==
  /\ CanStep(r)
  /\ js' = [js EXCEPT ![r].tasks = Append(@, task)]
  /\ trace' = [trace EXCEPT ![r].steps = @ + 1]
  /\ UNCHANGED <<lint, cfg, plugin, pc, op_state, local, context>>

\* run, line 173: mod_evaluate, whose result is dropped.  The plugin's top
\* level ends; the driver then defines runPlugins and calls
\* registerRule(Plugin), which stores the rule under its code and registers
\* the code with the host.
ModEvaluateDone(r, code) ==
  /\ Running(r)
  /\ pc[r] = "mod_evaluate"
  /\ js' = [js EXCEPT ![r].runPlugins = TRUE, ![r].rules = @ \cup {code}]
  /\ op_state' = [op_state EXCEPT ![r] = op_add_rule_code(op_state[r], code)]
  /\ trace' = [trace EXCEPT ![r].registered = @ \cup {code}]
  /\ pc' = [pc EXCEPT ![r] = "event_loop"]
  /\ UNCHANGED <<lint, cfg, plugin, local, context>>

\* The evaluation throws: in the plugin's top level (the driver's body never
\* runs) or in ruleCode() (runPlugins is defined, no rule is stored).
ModEvaluateThrow(r, inRuleCode) ==
  /\ Running(r)
  /\ pc[r] = "mod_evaluate"
  /\ js' = [js EXCEPT ![r].runPlugins = inRuleCode, ![r].evalErr = TRUE]
  /\ pc' = [pc EXCEPT ![r] = "event_loop"]
  /\ UNCHANGED <<lint, cfg, plugin, op_state, local, context, trace>>

\* run, lines 174-177: run_event_loop runs the tasks left on the loop.
RunTask(r) ==
  /\ Running(r)
  /\ pc[r] = "event_loop"
  /\ js[r].tasks # <<>>
  /\ LET task == Head(js[r].tasks) IN
       /\ op_state' = [op_state EXCEPT ![r] =
            IF task.op = "op_add_rule_code"
            THEN op_add_rule_code(op_state[r], task.code)
            ELSE op_add_diagnostics(op_state[r], task.code, task.diagnostics)]
       /\ trace' = [trace EXCEPT
            ![r].reported = IF task.op = "op_add_diagnostics"
                            THEN Append(@, Report("event_loop", task.code, task.diagnostics))
                            ELSE @,
            ![r].registered = IF task.op = "op_add_rule_code" THEN @ \cup {task.code} ELSE @]
  /\ js' = [js EXCEPT ![r].tasks = Tail(@)]
  /\ UNCHANGED <<lint, cfg, plugin, pc, local, context>>

\* run, lines 174-177: the loop is idle and run_event_loop returns;
\* .unwrap() panics on an error.  Whether a rejected evaluation whose
\* receiver was dropped comes back as an error is the runtime's choice.
EventLoopDone(r) ==
  /\ Running(r)
  /\ pc[r] = "event_loop"
  /\ js[r].tasks = <<>>
  /\ \E err \in (IF js[r].evalErr THEN BOOLEAN ELSE {FALSE}) :
       /\ pc' = [pc EXCEPT ![r] = IF err THEN "panicked" ELSE "take_codes"]
       /\ trace' = [trace EXCEPT ![r].fault = IF err THEN "run_event_loop" ELSE @]
  /\ UNCHANGED <<lint, cfg, plugin, op_state, js, local, context>>

\* A variant of lines 179-186 that takes the registered codes without
\* recording them in the Context.
TakeCodes_norecord(r) ==
  /\ Running(r)
  /\ pc[r] = "take_codes"
  /\ LET codes == IF op_state[r].Codes = None THEN {} ELSE Unwrap(op_state[r].Codes) IN
       local' = [local EXCEPT ![r].codes = codes]
  /\ op_state' = [op_state EXCEPT ![r].Codes = None]
  /\ pc' = [pc EXCEPT ![r] = "execute_script"]
  /\ UNCHANGED <<lint, cfg, plugin, js, context, trace>>

\* run, lines 179-186: the registered codes are taken out of the OpState and
\* recorded in the Context.
TakeCodes(r) ==
  /\ Running(r)
  /\ pc[r] = "take_codes"
  /\ LET codes == IF op_state[r].Codes = None THEN {} ELSE Unwrap(op_state[r].Codes) IN
       /\ local' = [local EXCEPT ![r].codes = codes]
       /\ context' = [context EXCEPT ![r] = set_plugin_codes(context[r], codes)]
  /\ op_state' = [op_state EXCEPT ![r].Codes = None]
  /\ pc' = [pc EXCEPT ![r] = "execute_script"]
  /\ UNCHANGED <<lint, cfg, plugin, js, trace>>

\* run, lines 188-199: execute_script("runPlugins(ast, rule_codes)").  The
\* HashSet of codes is written out as an array in some order.  With no
\* global runPlugins the script throws and `?` returns the error.
ExecuteScript(r) ==
  /\ Running(r)
  /\ pc[r] = "execute_script"
  /\ IF js[r].runPlugins
     THEN \E order \in Orders(local[r].codes) :
            /\ js' = [js EXCEPT ![r].loop = order, ![r].ruleCodes = Some(order)]
            /\ pc' = [pc EXCEPT ![r] = "run_plugins"]
            /\ UNCHANGED trace
     ELSE /\ pc' = [pc EXCEPT ![r] = "returned_err"]
          /\ trace' = [trace EXCEPT ![r].fault = "ReferenceError"]
          /\ UNCHANGED js
  /\ UNCHANGED <<lint, cfg, plugin, op_state, local, context>>

\* A variant of runPlugins that instantiates the rule without checking that
\* one is stored under the code, and so throws on a code that has none.
RunPluginsStep_throw(r) ==
  /\ Running(r)
  /\ pc[r] = "run_plugins"
  /\ IF js[r].loop = <<>>
     THEN /\ pc' = [pc EXCEPT ![r] = "harvest"]
          /\ UNCHANGED <<js, trace>>
     ELSE LET code == Head(js[r].loop) IN
          IF code \notin js[r].rules
          THEN /\ js' = [js EXCEPT ![r].loop = Tail(@)]
               /\ trace' = [trace EXCEPT ![r].fault = "threw"]
               /\ pc' = [pc EXCEPT ![r] = "returned_err"]
          ELSE /\ js' = [js EXCEPT ![r].loop = Tail(@), ![r].cur = Some(code)]
               /\ trace' = [trace EXCEPT ![r].instantiated = @ \cup {code}]
               /\ pc' = [pc EXCEPT ![r] = "collect"]
  /\ UNCHANGED <<lint, cfg, plugin, op_state, local, context>>

\* The driver's runPlugins, one turn of `for (const code of ruleCodes)`: a
\* code with no rule stored under it is skipped; otherwise the rule is
\* instantiated and its collectDiagnostics starts.  After the last code the
\* script has run and execute_script returns Ok.
RunPluginsStep(r) ==
  /\ Running(r)
  /\ pc[r] = "run_plugins"
  /\ IF js[r].loop = <<>>
     THEN /\ pc' = [pc EXCEPT ![r] = "harvest"]
          /\ UNCHANGED <<js, trace>>
     ELSE LET code == Head(js[r].loop) IN
          IF code \notin js[r].rules
          THEN /\ js' = [js EXCEPT ![r].loop = Tail(@)]
               /\ UNCHANGED <<pc, trace>>
          ELSE /\ js' = [js EXCEPT ![r].loop = Tail(@), ![r].cur = Some(code)]
               /\ trace' = [trace EXCEPT ![r].instantiated = @ \cup {code}]
               /\ pc' = [pc EXCEPT ![r] = "collect"]
  /\ UNCHANGED <<lint, cfg, plugin, op_state, local, context>>

\* collectDiagnostics returns a list and runPlugins reports it under the
\* code being processed.
CollectReturn(r, list) ==
  /\ Running(r)
  /\ pc[r] = "collect"
  /\ LET code == Unwrap(js[r].cur) IN
       /\ op_state' = [op_state EXCEPT ![r] = op_add_diagnostics(op_state[r], code, list)]
       /\ trace' = [trace EXCEPT
            ![r].reported = Append(@, Report("runPlugins", code, list))]
  /\ js' = [js EXCEPT ![r].cur = None]
  /\ pc' = [pc EXCEPT ![r] = "run_plugins"]
  /\ UNCHANGED <<lint, cfg, plugin, local, context>>

\* collectDiagnostics returns something that is no list of diagnostics:
\* serde_json::from_value(args).unwrap() in op_add_diagnostics panics.
CollectReturnMalformed(r) ==
  /\ Running(r)
  /\ pc[r] = "collect"
  /\ pc' = [pc EXCEPT ![r] = "panicked"]
  /\ trace' = [trace EXCEPT ![r].fault = "from_value"]
  /\ UNCHANGED <<lint, cfg, plugin, op_state, js, local, context>>

\* The rule throws: the exception leaves runPlugins, execute_script returns
\* Err and `?` (line 199) returns it from run.
CollectThrow(r) ==
  /\ Running(r)
  /\ pc[r] = "collect"
  /\ pc' = [pc EXCEPT ![r] = "returned_err"]
  /\ trace' = [trace EXCEPT ![r].fault = "threw"]
  /\ UNCHANGED <<lint, cfg, plugin, op_state, js, local, context>>

\* A variant of the harvest loop that adds every diagnostic without a hint.
RECURSIVE AddDiagnostics_nohint(_, _, _)
AddDiagnostics_nohint(ctx, code, diagnostics) ==
  IF diagnostics = <<>> THEN ctx
  ELSE LET d == Head(diagnostics) IN
       AddDiagnostics_nohint(add_diagnostic(ctx, d.span, code, d.message), code, Tail(diagnostics))

\* run, lines 209-215: the diagnostics of one code, in list order.
RECURSIVE AddDiagnostics(_, _, _)
AddDiagnostics(ctx, code, diagnostics) ==
  IF diagnostics = <<>> THEN ctx
  ELSE LET d == Head(diagnostics) IN
       AddDiagnostics(
         IF d.hint # None
         THEN add_diagnostic_with_hint(ctx, d.span, code, d.message, Unwrap(d.hint))
         ELSE add_diagnostic(ctx, d.span, code, d.message),
         code, Tail(diagnostics))

\* run, lines 208-216: `for (code, diagnostics) in diagnostic_map`, the
\* entries visited in the order `order`.
RECURSIVE AddDiagnosticMap(_, _, _)
AddDiagnosticMap(ctx, diagnostic_map, order) ==
  IF order = <<>> THEN ctx
  ELSE AddDiagnosticMap(
         AddDiagnostics(ctx, Head(order), diagnostic_map[Head(order)]),
         diagnostic_map, Tail(order))

\* run, lines 201-219: the diagnostic map is taken out of the OpState and
\* every entry is added to the Context; run returns Ok.
Harvest(r) ==
  /\ Running(r)
  /\ pc[r] = "harvest"
  /\ local' = [local EXCEPT ![r].diagnostic_map = op_state[r].Diagnostics]
  /\ op_state' = [op_state EXCEPT ![r].Diagnostics = None]
  /\ IF op_state[r].Diagnostics = None
     THEN UNCHANGED context
     ELSE LET diagnostic_map == Unwrap(op_state[r].Diagnostics) IN
          \E order \in Orders(DOMAIN diagnostic_map) :
            context' = [context EXCEPT ![r] = AddDiagnosticMap(context[r], diagnostic_map, order)]
  /\ pc' = [pc EXCEPT ![r] = "returned_ok"]
  /\ UNCHANGED <<lint, cfg, plugin, js, trace>>

\* run has returned (Ok or Err) and its JsRunner is dropped; the thread may
\* call run again.
Return(r) ==
  /\ Running(r)
  /\ pc[r] \in {"returned_ok", "returned_err"}
  /\ pc' = [pc EXCEPT ![r] = "idle"]
  /\ UNCHANGED <<lint, cfg, plugin, op_state, js, local, context, trace>>

Next ==
  \E r \in Threads :
    \/ JsRunnerNew(r)
    \/ PutControlFlow(r)
    \/ \E code \in cfg.codes : JsCallAddRuleCode(r, code)
    \/ \E code \in cfg.codes, list \in SeqsUpTo(cfg.diags[r], 1) : JsCallAddDiagnostics(r, code, list)
    \/ \E span \in cfg.spans : JsCallQueryControlFlow(r, span)
    \/ \E task \in Tasks(cfg.codes, cfg.diags[r]) : JsSchedule(r, task)
    \/ \E code \in cfg.codes : ModEvaluateDone(r, code)
    \/ \E inRuleCode \in BOOLEAN : ModEvaluateThrow(r, inRuleCode)
    \/ RunTask(r)
    \/ EventLoopDone(r)
    \/ TakeCodes(r)
    \/ ExecuteScript(r)
    \/ RunPluginsStep(r)
    \/ \E list \in SeqsUpTo(cfg.diags[r], cfg.maxLen) : CollectReturn(r, list)
    \/ CollectReturnMalformed(r)
    \/ CollectThrow(r)
    \/ Harvest(r)
    \/ Return(r)

Spec == Init /\ [][Next]_vars

SpecOps == InitOps /\ [][Next]_vars

SpecSeq == InitSeq /\ [][Next]_vars

SpecConc == InitConc /\ [][Next]_vars

\* ------------------------------------------------------- the native rules
\* A program for no-non-null-assertion: its nodes in source (pre-)order,
\* each with its kind and the index of its parent (0: the Module or Script).
\* An Ident has no child, a TsNonNullExpr has exactly one (its expr), any
\* other node (a member, call or unary expression, a statement) any number.
NodeKinds == {"Ident", "TsNonNullExpr", "Other"}

RECURSIVE Ancestors(_, _)
Ancestors(p, i) == IF i = 0 THEN {} ELSE {p[i].parent} \cup Ancestors(p, p[i].parent)

Children(p, i) == {j \in DOMAIN p : p[j].parent = i}

\* The nodes the next node in source order can be a child of.
OpenNodes(p) ==
  IF p = <<>> THEN {0}
  ELSE IF p[Len(p)].kind = "TsNonNullExpr" THEN {Len(p)}
  ELSE {a \in Ancestors(p, Len(p)) \cup {Len(p)} : a = 0 \/ p[a].kind = "Other"}

RECURSIVE ProgramPrefixes(_)
ProgramPrefixes(n) ==
  IF n = 0 THEN {<<>>}
  ELSE UNION {{Append(p, [kind |-> k, parent |-> a]) : k \in NodeKinds, a \in OpenNodes(p)} :
                p \in ProgramPrefixes(n - 1)}

Programs ==
  UNION {{p \in ProgramPrefixes(n) : p[n].kind # "TsNonNullExpr"} : n \in 1..MaxNodes}

\* The span of node i: from its own start to the end of its last descendant.
NodeSpan(p, i) ==
  [lo |-> i, hi |-> CHOOSE j \in DOMAIN p :
                      /\ j = i \/ i \in Ancestors(p, j)
                      /\ \A k \in DOMAIN p : (k = i \/ i \in Ancestors(p, k)) => k <= j]

\* The nodes in s, in source order.
RECURSIVE InOrder(_)
InOrder(s) ==
  IF s = {} THEN <<>>
  ELSE LET i == CHOOSE i \in s : \A j \in s : i <= j IN <<i>> \o InOrder(s \ {i})

NoNonNullAssertion_CODE == "no-non-null-assertion"
NoNonNullAssertionMessage_Unexpected == "do not use non-null assertion"

\* The expressions use-isnan tells apart: the identifier NaN, another
\* identifier, a member expression (Number.NaN) and a number literal, which
\* are no identifiers, and a binary expression.
IdentNaN == [type |-> "Ident", sym |-> "NaN"]
LeafExprs ==
  {IdentNaN, [type |-> "Ident", sym |-> "foo"], [type |-> "Member", sym |-> "NaN"]}
Lit42 == [type |-> "Lit", sym |-> "42"]

\* The operators visit_bin_expr looks at, and one it does not.
ComparisonOps == {"==", "!=", "===", "!==", "<", "<=", ">", ">="}
BinaryOps == ComparisonOps \cup {"+"}

BinExpr(op, left, right, span) ==
  [type |-> "Bin", op |-> op, left |-> left, right |-> right, span |-> span]

\* `NaN == foo` as an operand or a discriminant of something larger.
InnerBinExpr == BinExpr("==", IdentNaN, [type |-> "Ident", sym |-> "foo"], [lo |-> 1, hi |-> 1])

Exprs == LeafExprs \cup {InnerBinExpr}

BinExprs ==
  {BinExpr(op, left, right, [lo |-> 0, hi |-> 2]) :
     op \in BinaryOps, left \in Exprs \cup {Lit42}, right \in Exprs}

\* A case clause: test is None for `default`.
CaseTests == {None} \cup {Some(e) : e \in LeafExprs}

BreakStmt == [type |-> "BreakStmt"]

\* `switch (NaN) { case NaN: break; }` inside clause k of another switch.
InnerSwitchStmt(k) ==
  [type |-> "SwitchStmt", span |-> [lo |-> k, hi |-> k], discriminant |-> IdentNaN,
   cases |-> <<[span |-> [lo |-> k, hi |-> k], test |-> Some(IdentNaN), cons |-> <<BreakStmt>>]>>]

\* The switch statement with this discriminant and these clauses, each a
\* test and whether its body is another switch statement or a break; the
\* statement spans all of it, clause k spans its own place inside.
SwitchStmt(discriminant, clauses) ==
  [type |-> "SwitchStmt",
   span |-> [lo |-> 0, hi |-> Len(clauses) + 1],
   discriminant |-> discriminant,
   cases |-> [k \in 1..Len(clauses) |->
                [span |-> [lo |-> k, hi |-> k], test |-> clauses[k][1],
                 cons |-> IF clauses[k][2] THEN <<InnerSwitchStmt(k)>> ELSE <<BreakStmt>>]]]

SwitchStmts ==
  {SwitchStmt(e, clauses) : e \in Exprs, clauses \in SeqsUpTo(CaseTests \X BOOLEAN, MaxCases)}

ExprStmts == {[type |-> "ExprStmt", expr |-> e] : e \in LeafExprs \cup BinExprs}

\* A program for use-isnan: a module of one statement.
Module(body) == [type |-> "Module", body |-> body]
UseIsNaNPrograms == {Module(<<stmt>>) : stmt \in SwitchStmts \cup ExprStmts}

UseIsNaN_CODE == "use-isnan"
UseIsNaNMessage_Comparison == "Use the isNaN function to compare with NaN"
UseIsNaNMessage_SwitchUnmatched ==
  "'switch(NaN)' can never match a case clause. Use Number.isNaN instead of the switch"
UseIsNaNMessage_CaseUnmatched ==
  "'case NaN' can never match. Use Number.isNaN before the switch"

is_nan_identifier(ident) == ident.sym = "NaN"

\* A diagnostic another rule left in the Context before this rule runs.
EarlierDiagnostic ==
  [rule_code |-> "no-sparse-arrays", span |-> [lo |-> 0, hi |-> 0],
   message |-> "Sparse arrays are not allowed", hint |-> None]

InitRules ==
  /\ cfg = [threads |-> {}, maxInv |-> 0, maxSteps |-> 0, maxLen |-> 0,
            codes |-> {}, diags |-> [r \in Threads |-> {}], spans |-> {}]
  /\ plugin = [plugin_path |-> PLUGIN_PATH]
  /\ pc = [r \in Threads |-> "idle"]
  /\ op_state = [r \in Threads |-> OpState_new]
  /\ js = [r \in Threads |-> JsEnv_new]
  /\ local = [r \in Threads |-> Local_new]
  /\ trace = [r \in Threads |-> Trace_new(0, 0)]
  /\ \E earlier \in SeqsUpTo({EarlierDiagnostic}, 1) :
       /\ context = [r \in Threads |->
            [diagnostics |-> earlier, plugin_codes |-> {}, control_flow |-> ControlFlow1]]
       /\ \/ \E p \in Programs :
               lint = [rule |-> NoNonNullAssertion_CODE, program |-> p,
                       todo |-> <<0>>, visited |-> <<>>, base |-> Len(earlier)]
          \/ \E m \in UseIsNaNPrograms :
               lint = [rule |-> UseIsNaN_CODE, program |-> m,
                       todo |-> <<m>>, visited |-> <<>>, base |-> Len(earlier)]

\* The visitor is at a node of the program a rule lints.
Visiting(rule) == lint.rule = rule /\ lint.todo # <<>>

\* NoNonNullAssertion::lint_program: visit_module or visit_script, which
\* goes on to the items of the body.
NoNonNullAssertion_lint_program ==
  /\ Visiting(NoNonNullAssertion_CODE)
  /\ Head(lint.todo) = 0
  /\ lint' = [lint EXCEPT !.todo = InOrder(Children(lint.program, 0))]
  /\ UNCHANGED <<cfg, plugin, pc, op_state, js, local, context, trace>>

\* Any node the visitor does not override: the children, in source order.
visit_children ==
  /\ Visiting(NoNonNullAssertion_CODE)
  /\ LET i == Head(lint.todo) IN
       /\ i # 0
       /\ lint.program[i].kind # "TsNonNullExpr"
       /\ lint' = [lint EXCEPT !.todo = InOrder(Children(lint.program, i)) \o Tail(@),
                               !.visited = Append(@, i)]
  /\ UNCHANGED <<cfg, plugin, pc, op_state, js, local, context, trace>>

\* A variant of visit_ts_non_null_expr that goes on into the expression.
visit_ts_non_null_expr_descend ==
  /\ Visiting(NoNonNullAssertion_CODE)
  /\ LET i == Head(lint.todo) IN
       /\ i # 0
       /\ lint.program[i].kind = "TsNonNullExpr"
       /\ context' = [context EXCEPT ![1] =
            add_diagnostic(@, NodeSpan(lint.program, i), NoNonNullAssertion_CODE,
                           NoNonNullAssertionMessage_Unexpected)]
       /\ lint' = [lint EXCEPT !.todo = InOrder(Children(lint.program, i)) \o Tail(@),
                               !.visited = Append(@, i)]
  /\ UNCHANGED <<cfg, plugin, pc, op_state, js, local, trace>>

\* visit_ts_non_null_expr: one diagnostic at the expression's span; the
\* expression inside is not visited.
visit_ts_non_null_expr ==
  /\ Visiting(NoNonNullAssertion_CODE)
  /\ LET i == Head(lint.todo) IN
       /\ i # 0
       /\ lint.program[i].kind = "TsNonNullExpr"
       /\ context' = [context EXCEPT ![1] =
            add_diagnostic(@, NodeSpan(lint.program, i), NoNonNullAssertion_CODE,
                           NoNonNullAssertionMessage_Unexpected)]
       /\ lint' = [lint EXCEPT !.todo = Tail(@), !.visited = Append(@, i)]
  /\ UNCHANGED <<cfg, plugin, pc, op_state, js, local, trace>>

\* UseIsNaN::lint_program: visit_module or visit_script, which goes on to
\* the items of the body.
UseIsNaN_lint_program ==
  /\ Visiting(UseIsNaN_CODE)
  /\ Head(lint.todo).type = "Module"
  /\ lint' = [lint EXCEPT !.todo = Head(lint.todo).body \o Tail(@),
                          !.visited = Append(@, "Module")]
  /\ UNCHANGED <<cfg, plugin, pc, op_state, js, local, context, trace>>

\* Any node the use-isnan visitor does not override: an expression
\* statement goes on to its expression, the other ones hold nothing the
\* visitor looks at.
UseIsNaN_visit_children ==
  /\ Visiting(UseIsNaN_CODE)
  /\ LET node == Head(lint.todo) IN
       /\ node.type \in {"ExprStmt", "Ident", "Member", "Lit", "BreakStmt"}
       /\ lint' = [lint EXCEPT
            !.todo = (IF node.type = "ExprStmt" THEN <<node.expr>> ELSE <<>>) \o Tail(@),
            !.visited = Append(@, node.type)]
  /\ UNCHANGED <<cfg, plugin, pc, op_state, js, local, context, trace>>

\* One operand of visit_bin_expr: a diagnostic at the span of the binary
\* expression when the operand is the identifier NaN.
visit_operand(ctx, bin_expr, operand) ==
  IF operand.type = "Ident" /\ is_nan_identifier(operand)
  THEN add_diagnostic(ctx, bin_expr.span, UseIsNaN_CODE, UseIsNaNMessage_Comparison)
  ELSE ctx

\* visit_bin_expr: for a comparison, the left operand and then the right
\* one; the operands themselves are not visited.
visit_bin_expr ==
  /\ Visiting(UseIsNaN_CODE)
  /\ LET bin_expr == Head(lint.todo) IN
       /\ bin_expr.type = "Bin"
       /\ context' = [context EXCEPT ![1] =
            IF bin_expr.op \in ComparisonOps
            THEN visit_operand(visit_operand(@, bin_expr, bin_expr.left), bin_expr, bin_expr.right)
            ELSE @]
  /\ lint' = [lint EXCEPT !.todo = Tail(@), !.visited = Append(@, "Bin")]
  /\ UNCHANGED <<cfg, plugin, pc, op_state, js, local, trace>>

\* The loop over the case clauses of visit_switch_stmt, from clause k on.
RECURSIVE visit_cases(_, _, _)
visit_cases(ctx, cases, k) ==
  IF k > Len(cases) THEN ctx
  ELSE LET case == cases[k] IN
       IF /\ case.test # None
          /\ Unwrap(case.test).type = "Ident"
          /\ is_nan_identifier(Unwrap(case.test))
       THEN visit_cases(add_diagnostic(ctx, case.span, UseIsNaN_CODE,
                                       UseIsNaNMessage_CaseUnmatched), cases, k + 1)
       ELSE visit_cases(ctx, cases, k + 1)

\* The check of the discriminant of visit_switch_stmt.
visit_discriminant(ctx, switch_stmt) ==
  IF /\ switch_stmt.discriminant.type = "Ident"
     /\ is_nan_identifier(switch_stmt.discriminant)
  THEN add_diagnostic(ctx, switch_stmt.span, UseIsNaN_CODE, UseIsNaNMessage_SwitchUnmatched)
  ELSE ctx

\* A variant of visit_switch_stmt that goes over the case clauses first.
visit_switch_stmt_cases_first ==
  /\ Visiting(UseIsNaN_CODE)
  /\ LET switch_stmt == Head(lint.todo) IN
       /\ switch_stmt.type = "SwitchStmt"
       /\ context' = [context EXCEPT ![1] =
            visit_discriminant(visit_cases(@, switch_stmt.cases, 1), switch_stmt)]
  /\ lint' = [lint EXCEPT !.todo = Tail(@), !.visited = Append(@, "SwitchStmt")]
  /\ UNCHANGED <<cfg, plugin, pc, op_state, js, local, trace>>

\* visit_switch_stmt: the discriminant, then the case clauses in order;
\* nothing inside the statement is visited.
visit_switch_stmt ==
  /\ Visiting(UseIsNaN_CODE)
  /\ LET switch_stmt == Head(lint.todo) IN
       /\ switch_stmt.type = "SwitchStmt"
       /\ context' = [context EXCEPT ![1] =
            visit_cases(visit_discriminant(@, switch_stmt), switch_stmt.cases, 1)]
  /\ lint' = [lint EXCEPT !.todo = Tail(@), !.visited = Append(@, "SwitchStmt")]
  /\ UNCHANGED <<cfg, plugin, pc, op_state, js, local, trace>>

NextRules ==
  \/ NoNonNullAssertion_lint_program
  \/ visit_children
  \/ visit_ts_non_null_expr
  \/ UseIsNaN_lint_program
  \/ UseIsNaN_visit_children
  \/ visit_bin_expr
  \/ visit_switch_stmt

SpecRules == InitRules /\ [][NextRules]_vars

\* ----------------------------------------------------------- the claims
\* What the current invocation of thread r has appended to its Context.
Added(r) == SubSeq(context[r].diagnostics, trace[r].base + 1, Len(context[r].diagnostics))

\* The Context entry a reported {span, message, hint?} stands for.
Expected(code, d) ==
  [rule_code |-> code, span |-> d.span, message |-> d.message,
   hint |-> IF d.hint = HintAbsent \/ d.hint = HintNull THEN {} ELSE {d.hint[2]}]

ExpectedList(code, list) == [k \in 1..Len(list) |-> Expected(code, list[k])]

Count(s, x) == Cardinality({i \in DOMAIN s : s[i] = x})
SameBag(s, t) == Len(s) = Len(t) /\ \A i \in DOMAIN s : Count(s, s[i]) = Count(t, s[i])

\* Report i is the most recent one for its code.
IsLast(reported, i) == \A j \in DOMAIN reported : j > i => reported[j].code # reported[i].code

\* The reports that were not overwritten, in the order they were made.
RECURSIVE InReportOrder(_, _)
InReportOrder(reported, i) ==
  IF i > Len(reported) THEN <<>>
  ELSE (IF IsLast(reported, i)
        THEN ExpectedList(reported[i].code, reported[i].diagnostics)
        ELSE <<>>) \o InReportOrder(reported, i + 1)

DuringEntry(rep) == rep.by \in {"collect", "runPlugins"}

\* C1: when runPlugins throws after having reported diagnostics, run returns
\* an error and every diagnostic reported before the fault is in the Context.
C1_PartialFailureRetention ==
  \A r \in Threads :
    trace[r].fault = "threw" =>
      /\ pc[r] \in {"returned_err", "idle"}
      /\ \A i \in DOMAIN trace[r].reported :
           LET rep == trace[r].reported[i] IN
           DuringEntry(rep) =>
             \A k \in DOMAIN rep.diagnostics :
               \E j \in DOMAIN Added(r) : Added(r)[j] = Expected(rep.code, rep.diagnostics[k])

\* C2: a module that fails to load or to evaluate never aborts the lint run;
\* run returns an error for that rule.
C2_LoadFaultRecoverable ==
  \A r \in Threads :
    trace[r].fault \in {"load_module", "run_event_loop"} => pc[r] \in {"returned_err", "idle"}

\* The positions of run at which the diagnostic map of the invocation is
\* still in the OpState (it has not been harvested).
MapInState == {"mod_evaluate", "event_loop", "take_codes", "execute_script",
               "run_plugins", "collect", "harvest", "returned_err"}

\* C3: the diagnostic map holds, for each code reported so far, exactly the
\* list of the most recent report for that code, and no other key.
C3_LastWriteWins ==
  \A r \in Threads :
    pc[r] \in MapInState =>
      LET reported == trace[r].reported IN
      IF reported = <<>>
      THEN op_state[r].Diagnostics = None
      ELSE /\ op_state[r].Diagnostics # None
           /\ LET m == Unwrap(op_state[r].Diagnostics) IN
                /\ DOMAIN m = {reported[i].code : i \in DOMAIN reported}
                /\ \A i \in DOMAIN reported :
                     IsLast(reported, i) =>
                       /\ Len(m[reported[i].code]) = Len(reported[i].diagnostics)
                       /\ \A k \in DOMAIN reported[i].diagnostics :
                            /\ m[reported[i].code][k].span = reported[i].diagnostics[k].span
                            /\ m[reported[i].code][k].message = reported[i].diagnostics[k].message
                            /\ m[reported[i].code][k].hint = Expected("", reported[i].diagnostics[k]).hint

\* C3 witness: a code was reported twice with different lists while another
\* code was in the map.
C3_Witness ==
  \E r \in Threads : \E i, j \in DOMAIN trace[r].reported :
    /\ pc[r] \in MapInState
    /\ i < j
    /\ trace[r].reported[i].code = trace[r].reported[j].code
    /\ trace[r].reported[i].diagnostics # <<>>
    /\ trace[r].reported[i].diagnostics # trace[r].reported[j].diagnostics
    /\ \E k \in DOMAIN trace[r].reported : trace[r].reported[k].code # trace[r].reported[i].code

\* C4: the answer of query_control_flow(span) is read off the Context's
\* control-flow facts at span.lo: null/null when none are recorded there,
\* else the negated unreachable flag and the stops-execution fact.
C4_QueryControlFlow ==
  \A r \in Threads :
    LET q == trace[r].lastQuery IN
    (q.span # None /\ Unwrap(q.ret).err = None) =>
      LET lo == Unwrap(q.span).lo
          ret == Unwrap(q.ret)
          facts == context[r].control_flow
      IN IF lo \notin DOMAIN facts
         THEN ret.isReachable = None /\ ret.stopsExecution = None
         ELSE /\ ret.isReachable = Some(~facts[lo].unreachable)
              /\ ret.stopsExecution = Some(facts[lo].stops_execution)

\* C4 witness: a query answered with facts whose span ends where none are
\* recorded.
C4_Witness ==
  \E r \in Threads :
    LET q == trace[r].lastQuery IN
    /\ q.span # None
    /\ Unwrap(q.ret).err = None
    /\ Unwrap(q.span).lo \in DOMAIN context[r].control_flow
    /\ Unwrap(q.span).hi \notin DOMAIN context[r].control_flow
    /\ Unwrap(q.ret).isReachable # None

\* C5: every invocation starts from an OpState with no diagnostic map and no
\* code set, and what an invocation adds to its Context was reported during
\* that invocation.
C5_FreshEnvironment ==
  \A r \in Threads :
    /\ pc[r] = "put" => op_state[r].Diagnostics = None /\ op_state[r].Codes = None
    /\ pc[r] = "returned_ok" => SameBag(Added(r), InReportOrder(trace[r].reported, 1))

\* C5 witness: a second invocation has returned Ok with diagnostics of its
\* own, after a first one whose diagnostic is not among them.
C5_Witness ==
  \E r \in Threads :
    /\ trace[r].inv = 2
    /\ pc[r] = "returned_ok"
    /\ trace[r].base > 0
    /\ Added(r) # <<>>
    /\ \A j \in DOMAIN Added(r) : Added(r)[j] # context[r].diagnostics[1]

\* C6: after the harvest the Context has gained exactly the entries of the
\* harvested map, each once, with the map's code, span, message and hint;
\* a hint the module wrote as a string is Some, a missing or null one None.
C6_RoundTrip ==
  \A r \in Threads :
    pc[r] = "returned_ok" =>
      IF local[r].diagnostic_map = None
      THEN Added(r) = <<>>
      ELSE LET m == Unwrap(local[r].diagnostic_map)
               entries == UNION {{c} \X (1..Len(m[c])) : c \in DOMAIN m}
               entry(e) == [rule_code |-> e[1], span |-> m[e[1]][e[2]].span,
                            message |-> m[e[1]][e[2]].message, hint |-> m[e[1]][e[2]].hint]
           IN /\ Len(Added(r)) = Cardinality(entries)
              /\ \A e \in entries :
                   Count(Added(r), entry(e)) = Cardinality({f \in entries : entry(f) = entry(e)})
              /\ \A j \in DOMAIN Added(r) :
                   \E i \in DOMAIN trace[r].reported : \E k \in DOMAIN trace[r].reported[i].diagnostics :
                     Added(r)[j] = Expected(trace[r].reported[i].code, trace[r].reported[i].diagnostics[k])

\* C6 witness: a harvest of two codes that brought a diagnostic with a hint,
\* one without, and one whose hint the module wrote as null.
C6_Witness ==
  \E r \in Threads :
    /\ pc[r] = "returned_ok"
    /\ local[r].diagnostic_map # None
    /\ Cardinality(DOMAIN Unwrap(local[r].diagnostic_map)) = 2
    /\ \E j \in DOMAIN Added(r) : Added(r)[j].hint = Some("h")
    /\ \E j \in DOMAIN Added(r) : Added(r)[j].hint = None /\ Added(r)[j].message = "m3"
    /\ \E j \in DOMAIN Added(r) : Added(r)[j].hint = None /\ Added(r)[j].message = "m1"

\* C7: the Context gains the harvested diagnostics in the order in which the
\* module reported them, also across different codes.
C7_ReportOrder ==
  \A r \in Threads :
    pc[r] = "returned_ok" => Added(r) = InReportOrder(trace[r].reported, 1)

\* C8: when the host harvests the diagnostic map, no work scheduled on the
\* runtime's event loop is still waiting to run.
C8_Quiescence ==
  \A r \in Threads :
    pc[r] \in {"harvest", "returned_ok"} => js[r].tasks = <<>>

\* C9: under every interleaving of two runs sharing the descriptor, the
\* descriptor is unchanged, no Context holds a diagnostic of the other run,
\* and a run that returned Ok added exactly what it reported itself.
C9_ConcurrentIsolation ==
  /\ plugin = [plugin_path |-> PLUGIN_PATH]
  /\ \A r \in Threads :
       /\ \A j \in DOMAIN context[r].diagnostics :
            \A o \in Threads \ {r} : \A d \in cfg.diags[o] :
              context[r].diagnostics[j].message # d.message
       /\ op_state[r].Diagnostics # None =>
            \A c \in DOMAIN Unwrap(op_state[r].Diagnostics) :
              \A k \in DOMAIN Unwrap(op_state[r].Diagnostics)[c] :
                \E d \in cfg.diags[r] : Unwrap(op_state[r].Diagnostics)[c][k].message = d.message
       /\ pc[r] = "returned_ok" => SameBag(Added(r), InReportOrder(trace[r].reported, 1))

\* C9 witness: one run has returned Ok with a diagnostic while the other,
\* which has already reported one, is still inside its entry point.
C9_Witness ==
  /\ pc[1] = "returned_ok"
  /\ Added(1) # <<>>
  /\ pc[2] = "collect"
  /\ op_state[2].Diagnostics # None
  /\ \E c \in DOMAIN Unwrap(op_state[2].Diagnostics) : Unwrap(op_state[2].Diagnostics)[c] # <<>>

\* C10: runPlugins skips a code no rule is stored under: it instantiates
\* nothing and reports nothing for it, raises no error for it, nothing of it
\* reaches the Context, and the codes that have a rule are still processed.
C10_UnknownCodeSkipped ==
  \A r \in Threads :
    pc[r] \in {"run_plugins", "collect", "harvest", "returned_ok", "returned_err"} =>
      /\ trace[r].instantiated \subseteq (js[r].rules \cap local[r].codes)
      /\ \A i \in DOMAIN trace[r].reported :
           trace[r].reported[i].by = "runPlugins" => trace[r].reported[i].code \in js[r].rules
      /\ trace[r].fault = "threw" => js[r].cur # None /\ Unwrap(js[r].cur) \in js[r].rules
      /\ pc[r] \in {"harvest", "returned_ok"} =>
           (js[r].rules \cap local[r].codes) \subseteq trace[r].instantiated
      /\ pc[r] = "returned_ok" =>
           \A j \in DOMAIN Added(r) :
             \/ Added(r)[j].rule_code \in js[r].rules
             \/ \E i \in DOMAIN trace[r].reported :
                  /\ trace[r].reported[i].by # "runPlugins"
                  /\ trace[r].reported[i].code = Added(r)[j].rule_code

\* C10 witness: run returned Ok after runPlugins was handed a code with no
\* rule, which brought nothing, and a code with a rule, which was processed
\* after it and brought a diagnostic.
C10_Witness ==
  \E r \in Threads : \E u, c \in local[r].codes :
    /\ pc[r] = "returned_ok"
    /\ u \notin js[r].rules
    /\ c \in js[r].rules
    /\ c \in trace[r].instantiated
    /\ \A j \in DOMAIN Added(r) : Added(r)[j].rule_code # u
    /\ \E j \in DOMAIN Added(r) : Added(r)[j].rule_code = c

\* What the native rule has appended to the Context.
LintAdded == SubSeq(context[1].diagnostics, lint.base + 1, Len(context[1].diagnostics))

\* The non-null assertions of p that lie inside no other non-null assertion.
Outermost(p) ==
  {i \in DOMAIN p :
     /\ p[i].kind = "TsNonNullExpr"
     /\ \A a \in Ancestors(p, i) \ {0} : p[a].kind # "TsNonNullExpr"}

\* C11: when no-non-null-assertion has gone over a program, it has added
\* exactly one diagnostic per outermost non-null assertion, at that
\* expression's span with the rule's code and message, and nothing else: a
\* non-null assertion inside another adds none, and a program without a
\* non-null assertion yields none.
C11_OnePerOutermost ==
  (lint.rule = NoNonNullAssertion_CODE /\ lint.todo = <<>>) =>
    LET p == lint.program IN
      /\ Len(LintAdded) = Cardinality(Outermost(p))
      /\ \A i \in Outermost(p) :
           Count(LintAdded,
                 [rule_code |-> NoNonNullAssertion_CODE, span |-> NodeSpan(p, i),
                  message |-> NoNonNullAssertionMessage_Unexpected, hint |-> None]) = 1
      /\ (\A i \in DOMAIN p : p[i].kind # "TsNonNullExpr") => LintAdded = <<>>

\* The rule has gone over `x!!; y!`: two outermost non-null assertions, one
\* of them with a non-null assertion directly inside, two diagnostics.
C11_Witness ==
  /\ lint.rule = NoNonNullAssertion_CODE
  /\ lint.todo = <<>>
  /\ Cardinality(Outermost(lint.program)) = 2
  /\ \E i \in Outermost(lint.program), j \in DOMAIN lint.program :
       lint.program[j].kind = "TsNonNullExpr" /\ lint.program[j].parent = i
  /\ Len(LintAdded) = 2

\* What use-isnan is to append for a switch statement: SwitchUnmatched at
\* the statement's span if its discriminant is the identifier NaN, then
\* CaseUnmatched at the clause's span for each clause whose test is the
\* identifier NaN, in source order.
ExpectedSwitch(sw) ==
  LET nan == InOrder({k \in DOMAIN sw.cases : sw.cases[k].test = {IdentNaN}})
  IN (IF sw.discriminant = IdentNaN
      THEN <<[rule_code |-> UseIsNaN_CODE, span |-> sw.span,
              message |-> UseIsNaNMessage_SwitchUnmatched, hint |-> None]>>
      ELSE <<>>)
     \o [n \in 1..Len(nan) |->
           [rule_code |-> UseIsNaN_CODE, span |-> sw.cases[nan[n]].span,
            message |-> UseIsNaNMessage_CaseUnmatched, hint |-> None]]

\* C12: visiting a switch statement, use-isnan appends to the diagnostics
\* already there one SwitchUnmatched at the statement's span if and only if
\* the discriminant is the identifier NaN, and after it one CaseUnmatched at
\* the clause's span for each case whose test is the identifier NaN, in
\* source order; default clauses and other tests add nothing.
C12_SwitchThenCases ==
  [][(lint.rule = UseIsNaN_CODE /\ lint.todo # <<>> /\ lint' # lint
        /\ Head(lint.todo).type = "SwitchStmt") =>
       context'[1].diagnostics =
         context[1].diagnostics \o ExpectedSwitch(Head(lint.todo))]_vars

\* use-isnan has visited `switch (NaN) { case NaN: .. <not NaN> .. case NaN: }`
\* with an earlier diagnostic in the Context, the second clause holding
\* another switch (NaN), and has appended three.
C12_Witness ==
  /\ lint.rule = UseIsNaN_CODE
  /\ lint.todo = <<>>
  /\ lint.base = 1
  /\ lint.program.body[1].type = "SwitchStmt"
  /\ LET sw == lint.program.body[1] IN
       /\ sw.discriminant = IdentNaN
       /\ Len(sw.cases) = 3
       /\ sw.cases[1].test = {IdentNaN}
       /\ sw.cases[2].test # {IdentNaN}
       /\ sw.cases[3].test = {IdentNaN}
       /\ sw.cases[2].cons = <<InnerSwitchStmt(2)>>
  /\ Len(LintAdded) = 3

\* The positions of run at which code of the module runs or is yet to run.
ModuleMayRun(p) ==
  p \in {"mod_evaluate", "event_loop", "take_codes", "execute_script", "run_plugins", "collect"}

\* C13: from module evaluation to the end of the entry point the OpState
\* holds the control-flow facts of the Context, so every query_control_flow
\* call the module makes is answered and none fails with "ControlFlow is not
\* set"; and no step of an invocation changes the facts the Context holds.
C13_ControlFlowInstalled ==
  [][\A r \in Threads :
       /\ context'[r].control_flow = context[r].control_flow
       /\ ModuleMayRun(pc'[r]) => op_state'[r].ControlFlow = Some(context'[r].control_flow)
       /\ (trace'[r].lastQuery # trace[r].lastQuery /\ trace'[r].lastQuery.span # None) =>
            Unwrap(trace'[r].lastQuery.ret).err = None]_vars

\* C13 witness: the top level of the module, the first module code to run,
\* has made a query and got an answer from the installed facts.
C13_Witness ==
  \E r \in Threads :
    /\ pc[r] = "mod_evaluate"
    /\ trace[r].lastQuery.span # None
    /\ Unwrap(trace[r].lastQuery.ret).err = None
    /\ Unwrap(trace[r].lastQuery.ret).isReachable # None
    /\ op_state[r].ControlFlow = Some(context[r].control_flow)

\* The elements of a sequence.
Range(s) == {s[i] : i \in DOMAIN s}

\* C14: once run has taken the codes, the Context records exactly the codes
\* registered while the module was evaluated and the event loop ran, also
\* when the entry point then faults; and the array runPlugins receives holds
\* exactly those codes, each once.
C14_CodesHandedAndRecorded ==
  \A r \in Threads :
    /\ pc[r] \in {"execute_script", "run_plugins", "collect", "harvest",
                  "returned_ok", "returned_err"} =>
         context[r].plugin_codes = trace[r].registered
    /\ js[r].ruleCodes # None =>
         LET ruleCodes == Unwrap(js[r].ruleCodes) IN
           /\ Range(ruleCodes) = trace[r].registered
           /\ Range(ruleCodes) = context[r].plugin_codes
           /\ Len(ruleCodes) = Cardinality(trace[r].registered)

\* C14 witness: two codes were registered, one by the module's top level and
\* one by the driver, runPlugins received both, a rule's collectDiagnostics
\* threw, and the Context records both codes.
C14_Witness ==
  \E r \in Threads :
    /\ pc[r] = "returned_err"
    /\ trace[r].fault = "threw"
    /\ Cardinality(trace[r].registered) = 2
    /\ js[r].ruleCodes # None
    /\ context[r].plugin_codes = trace[r].registered

====
